---- MODULE Spec2Model ----
(***************************************************************************)
(* A model of the ruby-libvirt binding (ext/libvirt/connect.c, domain.c).  *)
(*                                                                         *)
(* Part 1, two-phase queries: every "ask libvirt for a count, then ask it  *)
(* for the values" method of the binding.  One invocation is one action;   *)
(* what the invocation did is kept as a trace of events (the libvirt calls *)
(* it issued with their arguments and return values, the buffers it        *)
(* allocated and released, and how it left), together with the Ruby value  *)
(* it returned or the exception it raised.  libvirt is the environment:    *)
(* its return values are inputs of the action.                             *)
(*                                                                         *)
(* Part 2, domain event callbacks: registration, deregistration and the    *)
(* adapters libvirt calls to deliver an event to a Ruby handler.           *)
(***************************************************************************)
EXTENDS Integers, Sequences, FiniteSets, TLC

VARIABLES
    query,      \* the last two-phase query invocation: what was called and what it did
    regs,       \* libvirt's callback list of the connection: callbackID -> registration
    disp,       \* the event delivery in progress (an adapter's frame), or NoDispatch
    reply,      \* what the registration method just called returned or raised, or NoReply
    deregDone,  \* callbackIDs for which domain_event_deregister* has returned nil
    call,       \* the last single-call or typed-parameter method invoked and what it did
    connPtr,    \* DATA_PTR of the Libvirt::Connect object: the handle, or NULL
    closeDone,  \* a conn.close on that object has returned
    wrapped,    \* a Connect object made by an adapter for the handle awaits finalization
    wrapperCloses \* the times the finalizer of such an object has closed the handle

vars == <<query, regs, disp, reply, deregDone, call, connPtr, closeDone, wrapped,
          wrapperCloses>>

qvars == <<query>>

evars == <<regs, disp, reply, deregDone>>

cvars == <<call, connPtr, closeDone>>

hvars == <<wrapped, wrapperCloses>>

(***************************************************************************)
(* Bounds of the model.                                                    *)
(***************************************************************************)
\* the largest count libvirt reports to a probe
MaxCount == 3

\* the largest flags value a caller passes
MaxFlags == 1

\* the number of callback registrations made on the connection
MaxRegs == 2

(***************************************************************************)
(* Ruby values and trace events.                                           *)
(***************************************************************************)
\* rb_str_new2(s): a fresh Ruby String with the bytes of the C string s
rb_str_new2(s) == <<"String", s>>

\* INT2NUM(i): the Ruby Integer of a C int
INT2NUM(i) == <<"Fixnum", i>>

\* ULL2NUM / LL2NUM: the Ruby Integer of a C (unsigned) long long
LL2NUM(i) == <<"Integer", i>>

\* a libvirt entry point called with these arguments, returning ret
Call(fn, cap, flags, buf, size, r) ==
    [ev |-> "call", fn |-> fn, cap |-> cap, flags |-> flags, buf |-> buf,
     size |-> size, ret |-> r]

\* a buffer of size elements taken from the stack frame (alloca) or the heap (ALLOC_N)
Alloc(how, size) == [ev |-> "alloc", how |-> how, size |-> size]

\* xfree of the heap buffer (what = "params", i = 0) or free of the string that
\* entry i of the array points to (what = "entry")
Free(what, i) == [ev |-> "free", what |-> what, index |-> i]

\* what libvirt leaves in a caller's array of size elements when it returns r:
\* the first r entries are written, the others keep whatever the memory held
Filled(size, r) ==
    [i \in 1..size |-> IF i <= r THEN [init |-> TRUE, val |-> i]
                                 ELSE [init |-> FALSE, val |-> 0]]

\* the values reading an uninitialised int can give
GarbageInts == {0, 99}

\* an invocation that returned value
ReturnOf(op, cap, flags, tr, value) ==
    [op |-> op, cap |-> cap, flags |-> flags, trace |-> tr, outcome |-> "return",
     class |-> "none", fn |-> "none", result |-> value]

\* an invocation that raised create_error(class, fn, conn)
RaiseOf(op, cap, flags, tr, class, fn) ==
    [op |-> op, cap |-> cap, flags |-> flags, trace |-> tr, outcome |-> "raise",
     class |-> class, fn |-> fn, result |-> <<>>]

\* rb_jump_tag(exception): the Ruby exception caught by rb_protect is raised again
JumpTag(op, cap, flags, tr) == RaiseOf(op, cap, flags, tr, "RubyException", "none")

\* the inputs of one invocation: the caller's cap and flags arguments and what
\* the environment answers: num to the probe, r to the fetch, a Ruby exception
\* while converting entry exc (0: none), and g for an uninitialised int
Envs ==
    [cap : {"nil", "net"}, flags : 0..MaxFlags, num : -1..MaxCount,
     r : -1..MaxCount, exc : 0..MaxCount, g : GarbageInts]

\* libvirt writes at most as many entries as the caller's buffer holds
EnvOk(e) == e.r <= (IF e.num > 0 THEN e.num ELSE 0)

\* the inputs of a method that takes no cap, no flags, and reads no int array
NoCap(e) == e.cap = "nil"

NoFlags(e) == e.flags = 0

NoInts(e) == e.g = 0

(***************************************************************************)
(* connect.c: the connection's name listings.                              *)
(***************************************************************************)
\* the object kinds gen_conn_list_names is expanded for
ListObjs ==
    {"DefinedDomains", "Interfaces", "DefinedInterfaces", "Networks",
     "DefinedNetworks", "NWFilters", "Secrets", "StoragePools",
     "DefinedStoragePools"}

\* the Ruby method each expansion defines
MethodOf ==
    [o \in ListObjs |->
        CASE o = "DefinedDomains" -> "list_defined_domains"
          [] o = "Interfaces" -> "list_interfaces"
          [] o = "DefinedInterfaces" -> "list_defined_interfaces"
          [] o = "Networks" -> "list_networks"
          [] o = "DefinedNetworks" -> "list_defined_networks"
          [] o = "NWFilters" -> "list_nwfilters"
          [] o = "Secrets" -> "list_secrets"
          [] o = "StoragePools" -> "list_storage_pools"
          [] o = "DefinedStoragePools" -> "list_defined_storage_pools"]

\* virConnectNumOf##objs
NumOfFn ==
    [o \in ListObjs |->
        CASE o = "DefinedDomains" -> "virConnectNumOfDefinedDomains"
          [] o = "Interfaces" -> "virConnectNumOfInterfaces"
          [] o = "DefinedInterfaces" -> "virConnectNumOfDefinedInterfaces"
          [] o = "Networks" -> "virConnectNumOfNetworks"
          [] o = "DefinedNetworks" -> "virConnectNumOfDefinedNetworks"
          [] o = "NWFilters" -> "virConnectNumOfNWFilters"
          [] o = "Secrets" -> "virConnectNumOfSecrets"
          [] o = "StoragePools" -> "virConnectNumOfStoragePools"
          [] o = "DefinedStoragePools" -> "virConnectNumOfDefinedStoragePools"]

\* virConnectList##objs
ListFn ==
    [o \in ListObjs |->
        CASE o = "DefinedDomains" -> "virConnectListDefinedDomains"
          [] o = "Interfaces" -> "virConnectListInterfaces"
          [] o = "DefinedInterfaces" -> "virConnectListDefinedInterfaces"
          [] o = "Networks" -> "virConnectListNetworks"
          [] o = "DefinedNetworks" -> "virConnectListDefinedNetworks"
          [] o = "NWFilters" -> "virConnectListNWFilters"
          [] o = "Secrets" -> "virConnectListSecrets"
          [] o = "StoragePools" -> "virConnectListStoragePools"
          [] o = "DefinedStoragePools" -> "virConnectListDefinedStoragePools"]

\* gen_list(num, list): the Ruby array of the num C strings of list, or the Ruby
\* exception raised while building it
gen_list(op, cap, flags, tr, num, list, exc) ==
    IF exc \in 1..num
    THEN JumpTag(op, cap, flags, tr)
    ELSE ReturnOf(op, cap, flags, tr, [i \in 1..num |-> rb_str_new2(list[i].val)])

\* a faulty variant of ProbeFailed: the probe's count is not checked
ProbeUnchecked(num) == FALSE

\* _E(num < 0, ...): the probe's count signals failure
ProbeFailed(num) == num < 0

\* if (num == 0) return rb_ary_new2(num): nothing to fetch
ProbedNone(num) == num = 0

\* _E(r < 0, ...): the fetch's count signals failure
FetchFailed(r) == r < 0

\* a faulty variant of FetchSize: the fetch is told of one entry more
FetchSizeOffByOne(num) == num + 1

\* the size handed to the fetch with the buffer allocated for num entries
FetchSize(num) == num

\* conn.list_defined_domains, list_interfaces, ...: the macro gen_conn_list_names
gen_conn_list_names(objs, e) ==
    LET op == MethodOf[objs]
        num == e.num
        probe == Call(NumOfFn[objs], "none", 0, "none", 0, num)
    IN  IF ProbeFailed(num)
        THEN RaiseOf(op, "nil", 0, <<probe>>, "RetrieveError", NumOfFn[objs])
        ELSE IF ProbedNone(num)
        THEN ReturnOf(op, "nil", 0, <<probe>>, <<>>)
        ELSE LET names == Alloc("alloca", num)
                 r == e.r
                 fetch == Call(ListFn[objs], "none", 0, "names", FetchSize(num), r)
                 tr == <<probe, names, fetch>>
             IN  IF FetchFailed(r)
                 THEN RaiseOf(op, "nil", 0, tr, "RetrieveError", ListFn[objs])
                 ELSE gen_list(op, "nil", 0, tr, num, Filled(num, r), e.exc)

\* the int read from entry i of ids: what libvirt wrote, or g where it wrote nothing
IdAt(ids, i, g) == IF ids[i].init THEN ids[i].val ELSE g

\* for (i = 0; i < num; i++): the number of entries conn.list_domains converts
DomainsConverted(num, r) == num

\* conn.list_domains
libvirt_conn_list_domains(e) ==
    LET op == "list_domains"
        num == e.num
        probe == Call("virConnectNumOfDomains", "none", 0, "none", 0, num)
    IN  IF num < 0
        THEN RaiseOf(op, "nil", 0, <<probe>>, "RetrieveError", "virConnectNumOfDomains")
        ELSE IF num = 0
        THEN ReturnOf(op, "nil", 0, <<probe>>, <<>>)
        ELSE LET r == e.r
                 fetch == Call("virConnectListDomains", "none", 0, "ids", num, r)
                 tr == <<probe, Alloc("alloca", num), fetch>>
                 ids == Filled(num, r)
                 n == DomainsConverted(num, r)
             IN  IF r < 0
                 THEN RaiseOf(op, "nil", 0, tr, "RetrieveError", "virConnectListDomains")
                 ELSE IF e.exc \in 1..n
                 THEN JumpTag(op, "nil", 0, tr)
                 ELSE ReturnOf(op, "nil", 0, tr,
                               [i \in 1..n |-> INT2NUM(IdAt(ids, i, e.g))])

\* conn.list_nodedevices(cap=nil, flags=0)
libvirt_conn_list_nodedevices(e) ==
    LET op == "list_nodedevices"
        num == e.num
        probe == Call("virNodeNumOfDevices", e.cap, 0, "none", 0, num)
    IN  IF num < 0
        THEN RaiseOf(op, e.cap, e.flags, <<probe>>, "RetrieveError", "virNodeNumOfDevices")
        ELSE IF num = 0
        THEN ReturnOf(op, e.cap, e.flags, <<probe>>, <<>>)
        ELSE LET r == e.r
                 fetch == Call("virNodeListDevices", e.cap, e.flags, "names", num, r)
                 tr == <<probe, Alloc("alloca", num), fetch>>
             IN  IF r < 0
                 THEN RaiseOf(op, e.cap, e.flags, tr, "RetrieveError", "virNodeListDevices")
                 ELSE gen_list(op, e.cap, e.flags, tr, num, Filled(num, r), e.exc)

(***************************************************************************)
(* connect.c: node_cpu_stats and node_memory_stats.                        *)
(***************************************************************************)
\* the libvirt entry point behind cpu_get_stats and memory_get_stats
StatsFns == {"virNodeGetCPUStats", "virNodeGetMemoryStats"}

\* the Ruby method of each
StatsMethod ==
    [f \in StatsFns |-> IF f = "virNodeGetCPUStats" THEN "node_cpu_stats"
                                                    ELSE "node_memory_stats"]

\* cpu_hash_set / memory_hash_set: the hash entry made of params[i]
hash_set(params, i) == <<rb_str_new2(params[i].val), LL2NUM(params[i].val)>>

\* a faulty variant of StatsFetchFailed: the failed fetch is issued once more
\* before giving up
StatsFetchRetried(op, flags, tr, fn) ==
    RaiseOf(op, "nil", flags, tr \o <<tr[Len(tr)], Free("params", 0)>>,
            "RetrieveError", fn)

\* internal_get_stats, the fetch failed: xfree(params), then raise
StatsFetchFailed(op, flags, tr, fn) ==
    RaiseOf(op, "nil", flags, Append(tr, Free("params", 0)), "RetrieveError", fn)

\* a faulty variant of StatsSetFailed: rb_jump_tag without the xfree
StatsSetFailedLeaks(op, flags, tr) == JumpTag(op, "nil", flags, tr)

\* internal_get_stats, hash_set raised at an entry: xfree(params), then rb_jump_tag
StatsSetFailed(op, flags, tr) ==
    JumpTag(op, "nil", flags, Append(tr, Free("params", 0)))

\* internal_get_stats, every entry stored: xfree(params), then return result
StatsDone(op, flags, tr, result) ==
    ReturnOf(op, "nil", flags, Append(tr, Free("params", 0)), result)

\* conn.node_cpu_stats / conn.node_memory_stats: get_stats is called with NULL and
\* nparams = 0, then with the allocated params; libvirt writes the count to nparams
internal_get_stats(fn, e) ==
    LET op == StatsMethod[fn]
        probe == Call(fn, "none", e.flags, "NULL", 0, e.num)
    IN  IF e.num < 0
        THEN RaiseOf(op, "nil", e.flags, <<probe>>, "RetrieveError", fn)
        ELSE LET nparams == e.num
             IN  IF nparams = 0
                 THEN ReturnOf(op, "nil", e.flags, <<probe>>, <<>>)
                 ELSE LET fetch == Call(fn, "none", e.flags, "params", nparams, e.r)
                          tr == <<probe, Alloc("ALLOC_N", nparams), fetch>>
                          params == Filled(nparams, e.r)
                      IN  IF e.r < 0
                          THEN StatsFetchFailed(op, e.flags, tr, fn)
                          ELSE IF e.exc \in 1..e.r
                          THEN StatsSetFailed(op, e.flags, tr)
                          ELSE StatsDone(op, e.flags, tr,
                                         [i \in 1..e.r |-> hash_set(params, i)])

(***************************************************************************)
(* domain.c: snapshot name listings.                                       *)
(***************************************************************************)
\* dom.list_snapshots(flags=0)
libvirt_dom_list_snapshots(e) ==
    LET op == "list_snapshots"
        num == e.num
        probe == Call("virDomainSnapshotNum", "none", 0, "none", 0, num)
    IN  IF num < 0
        THEN RaiseOf(op, "nil", e.flags, <<probe>>, "RetrieveError", "virDomainSnapshotNum")
        ELSE IF num = 0
        THEN ReturnOf(op, "nil", e.flags, <<probe>>, <<>>)
        ELSE LET r == e.r
                 fetch == Call("virDomainSnapshotListNames", "none", e.flags,
                               "names", num, r)
                 tr == <<probe, Alloc("alloca", num), fetch>>
             IN  IF r < 0
                 THEN RaiseOf(op, "nil", e.flags, tr, "RetrieveError",
                              "virDomainSnapshotListNames")
                 ELSE gen_list(op, "nil", e.flags, tr, num, Filled(num, r), e.exc)

\* the free(children[i]) calls of entries from..to, in order
FreeEntries(from, to) == [k \in 1..(to - from + 1) |-> Free("entry", from + k - 1)]

\* snapshot.list_children_names(flags=0)
libvirt_dom_snapshot_list_children_names(e) ==
    LET op == "list_children_names"
        num_children == e.num
        probe == Call("virDomainSnapshotNumChildren", "none", e.flags, "none", 0,
                      num_children)
    IN  IF num_children < 0
        THEN RaiseOf(op, "nil", e.flags, <<probe>>, "RetrieveError",
                     "virDomainSnapshotNumChildren")
        ELSE LET ret == e.r
                 fetch == Call("virDomainSnapshotListChildrenNames", "none", e.flags,
                               "children", num_children, ret)
                 tr == <<probe, Alloc("alloca", num_children), fetch>>
                 children == Filled(num_children, ret)
             IN  IF ret < 0
                 THEN RaiseOf(op, "nil", e.flags, tr, "RetrieveError",
                              "virDomainSnapshotListChildrenNames")
                 ELSE IF e.exc \in 1..ret
                 THEN \* entries before exc were freed in the loop, the error path
                      \* frees the others
                      JumpTag(op, "nil", e.flags,
                              tr \o FreeEntries(1, e.exc - 1) \o FreeEntries(e.exc, ret))
                 ELSE ReturnOf(op, "nil", e.flags, tr \o FreeEntries(1, ret),
                               [i \in 1..ret |-> rb_str_new2(children[i].val)])

(***************************************************************************)
(* The query methods as actions: the caller's arguments and libvirt's      *)
(* answers are chosen, the method runs to its return or raise.             *)
(***************************************************************************)
NoQuery ==
    [op |-> "none", cap |-> "nil", flags |-> 0, trace |-> <<>>, outcome |-> "none",
     class |-> "none", fn |-> "none", result |-> <<>>]

ListNames ==
    \E objs \in ListObjs, e \in Envs :
        /\ EnvOk(e) /\ NoCap(e) /\ NoFlags(e) /\ NoInts(e)
        /\ query' = gen_conn_list_names(objs, e)
        /\ UNCHANGED <<evars, cvars, hvars>>

ListDomains ==
    \E e \in Envs :
        /\ EnvOk(e) /\ NoCap(e) /\ NoFlags(e)
        /\ query' = libvirt_conn_list_domains(e)
        /\ UNCHANGED <<evars, cvars, hvars>>

ListNodeDevices ==
    \E e \in Envs :
        /\ EnvOk(e) /\ NoInts(e)
        /\ query' = libvirt_conn_list_nodedevices(e)
        /\ UNCHANGED <<evars, cvars, hvars>>

NodeStats ==
    \E fn \in StatsFns, e \in Envs :
        /\ EnvOk(e) /\ NoCap(e) /\ NoInts(e)
        /\ query' = internal_get_stats(fn, e)
        /\ UNCHANGED <<evars, cvars, hvars>>

ListSnapshots ==
    \E e \in Envs :
        /\ EnvOk(e) /\ NoCap(e) /\ NoInts(e)
        /\ query' = libvirt_dom_list_snapshots(e)
        /\ UNCHANGED <<evars, cvars, hvars>>

ListChildrenNames ==
    \E e \in Envs :
        /\ EnvOk(e) /\ NoCap(e) /\ NoInts(e)
        /\ query' = libvirt_dom_snapshot_list_children_names(e)
        /\ UNCHANGED <<evars, cvars, hvars>>

NextQuery ==
    \/ ListDomains
    \/ ListNames
    \/ ListNodeDevices
    \/ NodeStats
    \/ ListSnapshots
    \/ ListChildrenNames

(***************************************************************************)
(* connect.c: domain event callbacks.                                      *)
(*                                                                         *)
(* libvirt keeps the connection's callback list.  A registration hands it  *)
(* the adapter function for the event kind and, as the opaque pointer, a   *)
(* Ruby array [cb, opaque] (the passthrough).  To deliver an event libvirt *)
(* calls the adapter of a registration still on its list.                  *)
(***************************************************************************)
Nil == <<"NilClass", "nil">>

\* the (callback, opaque) pairs callers register with: a Symbol, a Proc, and a
\* String, which is no callback
RegArgs ==
    { [cb |-> <<"Symbol", "on_event">>, opaque |-> <<"String", "x">>],
      [cb |-> <<"Proc", "handler">>, opaque |-> Nil],
      [cb |-> <<"String", "on_event">>, opaque |-> Nil] }

\* the eventID arguments callers pass: the ids the switch knows and one it does not
EventIDs ==
    {"LIFECYCLE", "REBOOT", "RTC_CHANGE", "WATCHDOG", "IO_ERROR",
     "IO_ERROR_REASON", "GRAPHICS", "CONTROL_ERROR"}

RegIds == 1..MaxRegs

NoReg == [state |-> "none"]

Deregistered == [state |-> "Deregistered"]

Registered(eventID, adapter, cb, opaque) ==
    [state |-> "Registered", eventID |-> eventID, adapter |-> adapter,
     passthrough |-> <<cb, opaque>>]

NoDispatch == [phase |-> "none"]

\* what a method saw of its arguments and whether it called libvirt (recorded
\* for domain_event_register_any)
NoArgs == [cb |-> "none", eventID |-> "none", libvirt |-> FALSE]

NoReply == [op |-> "none", id |-> 0, out |-> "none", seen |-> NoArgs]

\* the callbackID libvirt gives the next registration (0: its list is full)
NextId ==
    IF \E i \in RegIds : regs[i].state = "none"
    THEN CHOOSE i \in RegIds :
            /\ regs[i].state = "none"
            /\ \A j \in RegIds : regs[j].state = "none" => i <= j
    ELSE 0

\* the callbackID of the registration made with domain_event_callback (0: none)
LegacyId ==
    IF \E i \in RegIds :
          regs[i].state = "Registered" /\ regs[i].adapter = "domain_event_callback"
    THEN CHOOSE i \in RegIds :
            regs[i].state = "Registered" /\ regs[i].adapter = "domain_event_callback"
    ELSE 0

\* is_symbol_or_proc(cb)
is_symbol_or_proc(cb) == cb[1] \in {"Symbol", "Proc"}

\* a faulty variant of InternalCb: an eventID the switch does not know gets the
\* lifecycle adapter
InternalCbDefaulted(eventID) ==
    CASE eventID = "LIFECYCLE" -> "domain_event_lifecycle_callback"
      [] eventID = "REBOOT" -> "domain_event_reboot_callback"
      [] eventID = "RTC_CHANGE" -> "domain_event_rtc_callback"
      [] eventID = "WATCHDOG" -> "domain_event_watchdog_callback"
      [] eventID = "IO_ERROR" -> "domain_event_io_error_callback"
      [] eventID = "IO_ERROR_REASON" -> "domain_event_io_error_reason_callback"
      [] eventID = "GRAPHICS" -> "domain_event_graphics_callback"
      [] OTHER -> "domain_event_lifecycle_callback"

\* the switch of domain_event_register_any: the adapter of an eventID
InternalCb(eventID) ==
    CASE eventID = "LIFECYCLE" -> "domain_event_lifecycle_callback"
      [] eventID = "REBOOT" -> "domain_event_reboot_callback"
      [] eventID = "RTC_CHANGE" -> "domain_event_rtc_callback"
      [] eventID = "WATCHDOG" -> "domain_event_watchdog_callback"
      [] eventID = "IO_ERROR" -> "domain_event_io_error_callback"
      [] eventID = "IO_ERROR_REASON" -> "domain_event_io_error_reason_callback"
      [] eventID = "GRAPHICS" -> "domain_event_graphics_callback"
      [] OTHER -> "NULL"

\* a registration method can be called by the Ruby program: at top level or from
\* a handler that an adapter is running
CallerRuns ==
    /\ reply.op = "none"
    /\ disp.phase \in {"none", "handler"}
    /\ connPtr # "NULL"

\* the method returned or raised: its outcome is what the caller sees
Replied(op, id, out) == reply' = [op |-> op, id |-> id, out |-> out, seen |-> NoArgs]

\* domain_event_register_any returned or raised, having been given eventID and
\* a callback of class cb, and having called virConnectDomainEventRegisterAny
\* or not
RepliedAny(id, out, eventID, cb, libvirt) ==
    reply' = [op |-> "domain_event_register_any", id |-> id, out |-> out,
              seen |-> [cb |-> cb[1], eventID |-> eventID, libvirt |-> libvirt]]

\* the caller has taken the method's result and runs on
CallerResumes ==
    /\ reply.op # "none"
    /\ reply' = NoReply
    /\ UNCHANGED <<cvars, hvars, query, regs, disp, deregDone>>

\* conn.domain_event_register_any(eventID, callback, dom=nil, opaque=nil), dom = nil
libvirt_conn_domain_event_register_any ==
    \E eventID \in EventIDs, a \in RegArgs, ok \in BOOLEAN :
        /\ CallerRuns
        /\ IF ~is_symbol_or_proc(a.cb)
           THEN /\ RepliedAny(0, "TypeError", eventID, a.cb, FALSE)
                /\ UNCHANGED <<regs, deregDone>>
           ELSE IF InternalCb(eventID) = "NULL"
           THEN /\ RepliedAny(0, "ArgumentError", eventID, a.cb, FALSE)
                /\ UNCHANGED <<regs, deregDone>>
           ELSE IF ok /\ NextId # 0
           THEN \* virConnectDomainEventRegisterAny returned the new callbackID
                /\ regs' = [regs EXCEPT ![NextId] =
                               Registered(eventID, InternalCb(eventID), a.cb, a.opaque)]
                /\ RepliedAny(NextId, "handle", eventID, a.cb, TRUE)
                /\ UNCHANGED deregDone
           ELSE \* it returned -1
                /\ RepliedAny(0, "Error", eventID, a.cb, TRUE)
                /\ UNCHANGED <<regs, deregDone>>
        /\ UNCHANGED <<cvars, hvars, query, disp>>

\* virConnectDomainEventDeregisterAny(conn, callbackID): 0 and the registration is
\* off the list, or -1 and the list is as it was
LibvirtDeregisterAny(id, ok) ==
    IF /\ ok
       /\ regs[id].state = "Registered"
       /\ regs[id].adapter # "domain_event_callback"
    THEN [r |-> 0, list |-> [regs EXCEPT ![id] = Deregistered]]
    ELSE [r |-> -1, list |-> regs]

\* gen_call_void: _E(r < 0, create_error(e_Error, ...)); return Qnil
CallFailed(r) == r < 0

\* a faulty variant of DeregArg: another registration's id is handed to libvirt
DeregArgOther(callbackID) == IF callbackID < MaxRegs THEN callbackID + 1 ELSE 1

\* NUM2INT(callbackID): the id handed to libvirt
DeregArg(callbackID) == callbackID

\* a faulty variant of domain_event_deregister_any: libvirt's return value is
\* not looked at and nil is returned whatever it was
DeregisterAnyUnchecked ==
    \E id \in RegIds, ok \in BOOLEAN :
        LET c == LibvirtDeregisterAny(DeregArg(id), ok)
        IN  /\ CallerRuns
            /\ regs' = c.list
            /\ Replied("domain_event_deregister_any", id, "nil")
            /\ deregDone' = deregDone \cup {id}
            /\ UNCHANGED <<cvars, hvars, query, disp>>

\* conn.domain_event_deregister_any(callbackID)
libvirt_conn_domain_event_deregister_any ==
    \E id \in RegIds, ok \in BOOLEAN :
        LET c == LibvirtDeregisterAny(DeregArg(id), ok)
        IN  /\ CallerRuns
            /\ regs' = c.list
            /\ IF CallFailed(c.r)
               THEN /\ Replied("domain_event_deregister_any", id, "Error")
                    /\ UNCHANGED deregDone
               ELSE /\ Replied("domain_event_deregister_any", id, "nil")
                    /\ deregDone' = deregDone \cup {id}
            /\ UNCHANGED <<cvars, hvars, query, disp>>

\* conn.domain_event_register(callback, opaque=nil)
libvirt_conn_domain_event_register ==
    \E a \in RegArgs, ok \in BOOLEAN :
        /\ CallerRuns
        /\ IF ~is_symbol_or_proc(a.cb)
           THEN /\ Replied("domain_event_register", 0, "TypeError")
                /\ UNCHANGED <<regs, deregDone>>
           ELSE IF ok /\ NextId # 0 /\ LegacyId = 0
           THEN \* virConnectDomainEventRegister returned 0
                /\ regs' = [regs EXCEPT ![NextId] =
                               Registered("LIFECYCLE", "domain_event_callback",
                                          a.cb, a.opaque)]
                /\ Replied("domain_event_register", NextId, "nil")
                /\ UNCHANGED deregDone
           ELSE \* it returned -1: this function is registered already, or it failed
                /\ Replied("domain_event_register", 0, "Error")
                /\ UNCHANGED <<regs, deregDone>>
        /\ UNCHANGED <<cvars, hvars, query, disp>>

\* a faulty variant of LibvirtDeregister: the function handed to libvirt is the
\* lifecycle adapter that register_any uses, so libvirt takes the lifecycle
\* registrations made with either method off its list
LibvirtDeregisterSharedAdapter(ok) ==
    IF ok /\ \E i \in RegIds : regs[i].state = "Registered" /\ regs[i].eventID = "LIFECYCLE"
    THEN [r |-> 0,
          list |-> [i \in RegIds |->
                      IF regs[i].state = "Registered" /\ regs[i].eventID = "LIFECYCLE"
                      THEN Deregistered ELSE regs[i]]]
    ELSE [r |-> -1, list |-> regs]

\* virConnectDomainEventDeregister(conn, domain_event_callback): 0 and the
\* registration of that function is off the list, or -1
LibvirtDeregister(ok) ==
    IF ok /\ LegacyId # 0
    THEN [r |-> 0, list |-> [regs EXCEPT ![LegacyId] = Deregistered]]
    ELSE [r |-> -1, list |-> regs]

\* a faulty variant of domain_event_deregister: nil is returned and libvirt was
\* never called
DeregisterNotCalled ==
    LET id == LegacyId
    IN  /\ CallerRuns
        /\ id # 0
        /\ regs' = regs
        /\ Replied("domain_event_deregister", id, "nil")
        /\ deregDone' = deregDone \cup {id}
        /\ UNCHANGED <<cvars, hvars, query, disp>>

\* conn.domain_event_deregister
libvirt_conn_domain_event_deregister ==
    \E ok \in BOOLEAN :
        LET c == LibvirtDeregister(ok)
            id == LegacyId
        IN  /\ CallerRuns
            /\ regs' = c.list
            /\ IF CallFailed(c.r)
               THEN /\ Replied("domain_event_deregister", id, "Error")
                    /\ UNCHANGED deregDone
               ELSE /\ Replied("domain_event_deregister", id, "nil")
                    /\ deregDone' = deregDone \cup {id}
            /\ UNCHANGED <<cvars, hvars, query, disp>>

(***************************************************************************)
(* The adapters.  Each is called by libvirt with the event's C values and  *)
(* the opaque pointer; it unpacks the passthrough array and calls the Ruby *)
(* handler.                                                                *)
(***************************************************************************)
\* the raw events libvirt delivers, by eventID
EventsOf(eventID) ==
    CASE eventID = "LIFECYCLE" ->
            [conn : {"conn"}, dom : {"dom"}, event : {2, 5}, detail : {1}]
      [] eventID = "REBOOT" ->
            [conn : {"conn"}, dom : {"dom"}]
      [] eventID = "RTC_CHANGE" ->
            [conn : {"conn"}, dom : {"dom"}, utc_offset : {-3600}]
      [] eventID = "WATCHDOG" ->
            [conn : {"conn"}, dom : {"dom"}, action : {0, 2}]
      [] eventID = "IO_ERROR" ->
            [conn : {"conn"}, dom : {"dom"}, src_path : {"/img"},
             dev_alias : {"ide0"}, action : {1}]
      [] eventID = "IO_ERROR_REASON" ->
            [conn : {"conn"}, dom : {"dom"}, src_path : {"/img"},
             dev_alias : {"ide0"}, action : {2}, reason : {"enospc"}]
      [] eventID = "GRAPHICS" ->
            [conn : {"conn"}, dom : {"dom"}, phase : {0},
             local : {[family |-> 0, node |-> "10.0.0.1", service |-> "5900"]},
             remote : {[family |-> 1, node |-> "fe80::2", service |-> "49152"]},
             authScheme : {"sasl"},
             subject : {<<[type |-> "saslUsername", name |-> "fred"],
                          [type |-> "x509dname", name |-> "CN=fred"]>>}]

\* connect_new(conn): a new Libvirt::Connect wrapping the handle
connect_new(conn) == <<"Connect", conn>>

\* domain_new(dom, newc): a new Libvirt::Domain wrapping the handle
domain_new(dom, newc) == <<"Domain", dom, newc>>

\* what an adapter finds where the opaque pointer points: the array as it was
\* stored, typed T_ARRAY
Intact(passthrough) ==
    [type |-> "T_ARRAY", len |-> Len(passthrough), elems |-> passthrough]

\* what it can find there once a garbage collection has run: no Ruby object,
\* global or stack slot refers to the array handed to libvirt, so it is dead and
\* its slot may hold the array still, or any other object
DeadReads(passthrough) ==
    { Intact(passthrough),
      [type |-> "T_STRING", len |-> 0, elems |-> <<>>],
      [type |-> "T_ARRAY", len |-> 0, elems |-> <<>>],
      [type |-> "T_ARRAY", len |-> 2,
       elems |-> <<<<"String", "other">>, <<"String", "other">>>>],
      [type |-> "T_ARRAY", len |-> 2,
       elems |-> <<<<"Proc", "other">>, <<"String", "other">>>>] }

\* rb_funcall(recv, mid, n, ...): the method call made, with its n arguments
rb_funcall(recv, mid, n, args) ==
    [phase |-> "handler", class |-> "none", recv |-> recv, mid |-> mid,
     args |-> SubSeq(args, 1, n)]

\* rb_raise(class, ...): the adapter is left by a Ruby exception
rb_raise(class) ==
    [phase |-> "raised", class |-> class, recv |-> Nil, mid |-> "none", args |-> <<>>]

\* a faulty variant of CallHandler: whatever is no Symbol is called as a Proc
CallHandlerAnyCb(p, n, args) ==
    IF p.type # "T_ARRAY"
    THEN rb_raise("TypeError")
    ELSE IF p.len # 2
    THEN rb_raise("ArgumentError")
    ELSE LET cb == p.elems[1]
             cb_opaque == p.elems[2]
         IN  IF cb[1] = "Symbol"
             THEN rb_funcall(<<"Class", "Symbol">>, cb[2], n, args \o <<cb_opaque>>)
             ELSE rb_funcall(cb, "call", n, args \o <<cb_opaque>>)

\* the part every adapter shares: check the passthrough, take cb and cb_opaque
\* from it, and call the handler with n arguments, the last being cb_opaque
CallHandler(p, n, args) ==
    IF p.type # "T_ARRAY"
    THEN rb_raise("TypeError")
    ELSE IF p.len # 2
    THEN rb_raise("ArgumentError")
    ELSE LET cb == p.elems[1]
             cb_opaque == p.elems[2]
         IN  IF cb[1] = "Symbol"
             THEN rb_funcall(<<"Class", "Symbol">>, cb[2], n, args \o <<cb_opaque>>)
             ELSE IF cb[1] = "Proc"
             THEN rb_funcall(cb, "call", n, args \o <<cb_opaque>>)
             ELSE rb_raise("TypeError")

domain_event_lifecycle_callback(ev, p) ==
    LET newc == connect_new(ev.conn)
    IN  CallHandler(p, 5, <<newc, domain_new(ev.dom, newc), INT2NUM(ev.event),
                            INT2NUM(ev.detail)>>)

domain_event_reboot_callback(ev, p) ==
    LET newc == connect_new(ev.conn)
    IN  CallHandler(p, 3, <<newc, domain_new(ev.dom, newc)>>)

domain_event_rtc_callback(ev, p) ==
    LET newc == connect_new(ev.conn)
    IN  CallHandler(p, 4, <<newc, domain_new(ev.dom, newc), LL2NUM(ev.utc_offset)>>)

domain_event_watchdog_callback(ev, p) ==
    LET newc == connect_new(ev.conn)
    IN  CallHandler(p, 4, <<newc, domain_new(ev.dom, newc), INT2NUM(ev.action)>>)

domain_event_io_error_callback(ev, p) ==
    LET newc == connect_new(ev.conn)
    IN  CallHandler(p, 6, <<newc, domain_new(ev.dom, newc), rb_str_new2(ev.src_path),
                            rb_str_new2(ev.dev_alias), INT2NUM(ev.action)>>)

domain_event_io_error_reason_callback(ev, p) ==
    LET newc == connect_new(ev.conn)
    IN  CallHandler(p, 7, <<newc, domain_new(ev.dom, newc), rb_str_new2(ev.src_path),
                            rb_str_new2(ev.dev_alias), INT2NUM(ev.action),
                            rb_str_new2(ev.reason)>>)

\* the hash built of a virDomainEventGraphicsAddress
AddressHash(a) ==
    <<"Hash", <<<<rb_str_new2("family"), INT2NUM(a.family)>>,
                <<rb_str_new2("node"), rb_str_new2(a.node)>>,
                <<rb_str_new2("service"), rb_str_new2(a.service)>>>>>>

\* the array built of the identities of a virDomainEventGraphicsSubject
SubjectArray(subject) ==
    <<"Array", [i \in 1..Len(subject) |->
                   <<"Array", <<rb_str_new2(subject[i].type),
                                rb_str_new2(subject[i].name)>>>>]>>

domain_event_graphics_callback(ev, p) ==
    LET local_hash == AddressHash(ev.local)
        remote_hash == AddressHash(ev.remote)
        subject_array == SubjectArray(ev.subject)
        newc == connect_new(ev.conn)
    IN  CallHandler(p, 8, <<newc, domain_new(ev.dom, newc), INT2NUM(ev.phase),
                            local_hash, remote_hash, rb_str_new2(ev.authScheme),
                            subject_array>>)

\* the wrapper registered by domain_event_register
domain_event_callback(ev, p) == domain_event_lifecycle_callback(ev, p)

\* libvirt calls the function it was given at registration
RunAdapter(adapter, ev, p) ==
    CASE adapter = "domain_event_lifecycle_callback" ->
            domain_event_lifecycle_callback(ev, p)
      [] adapter = "domain_event_reboot_callback" -> domain_event_reboot_callback(ev, p)
      [] adapter = "domain_event_rtc_callback" -> domain_event_rtc_callback(ev, p)
      [] adapter = "domain_event_watchdog_callback" ->
            domain_event_watchdog_callback(ev, p)
      [] adapter = "domain_event_io_error_callback" ->
            domain_event_io_error_callback(ev, p)
      [] adapter = "domain_event_io_error_reason_callback" ->
            domain_event_io_error_reason_callback(ev, p)
      [] adapter = "domain_event_graphics_callback" ->
            domain_event_graphics_callback(ev, p)
      [] adapter = "domain_event_callback" -> domain_event_callback(ev, p)

\* what the adapter of registration id reads through its opaque pointer: the
\* array as stored if no garbage collection has run since the registration
\* method returned (collected = FALSE), and what a dead array leaves otherwise
PassthroughReads(id, collected) ==
    IF collected THEN DeadReads(regs[id].passthrough)
                 ELSE {Intact(regs[id].passthrough)}

\* the adapter gets as far as newc = connect_new(conn): the passthrough is an
\* array of two
ReachesConnectNew(p) == p.type = "T_ARRAY" /\ p.len = 2

\* libvirt delivers an event to registration id, which is on its list: the
\* adapter runs up to its call of the Ruby handler, or to the exception that
\* leaves it
DeliverTo(id) ==
    /\ reply.op = "none"
    /\ disp.phase = "none"
    /\ regs[id].state = "Registered"
    /\ \E ev \in EventsOf(regs[id].eventID), collected \in BOOLEAN :
          \E p \in PassthroughReads(id, collected) :
             /\ disp' = [id |-> id, eventID |-> regs[id].eventID, event |-> ev,
                         registered |-> regs[id].passthrough, found |-> p,
                         afterDereg |-> id \in deregDone]
                        @@ RunAdapter(regs[id].adapter, ev, p)
             /\ wrapped' = (wrapped \/ ReachesConnectNew(p))
    /\ UNCHANGED <<cvars, wrapperCloses, query, regs, reply, deregDone>>

Deliver == \E id \in RegIds : DeliverTo(id)

\* the handler returns and the adapter returns 0, or the exception unwinds the
\* adapter's frame: the delivery is over
DeliverEnd ==
    /\ reply.op = "none"
    /\ disp.phase \in {"handler", "raised"}
    /\ disp' = NoDispatch
    /\ UNCHANGED <<cvars, hvars, query, regs, reply, deregDone>>

NextEvent ==
    \/ libvirt_conn_domain_event_register_any
    \/ libvirt_conn_domain_event_deregister_any
    \/ libvirt_conn_domain_event_register
    \/ libvirt_conn_domain_event_deregister
    \/ CallerResumes
    \/ Deliver
    \/ DeliverEnd

(***************************************************************************)
(* connect.c, domain.c: methods that make a single libvirt call, and the   *)
(* connection's close and closed?.  An invocation is one action; what it   *)
(* did is kept in call: the libvirt calls it issued, and its return value  *)
(* or the exception it raised.  Domain methods are invoked on a domain of  *)
(* the connection while the connection is open.                            *)
(***************************************************************************)
Qtrue == <<"TrueClass", "true">>

Qfalse == <<"FalseClass", "false">>

\* the virConnectPtr the Connect object was created for
Handle == "virConnectPtr"

\* a libvirt entry point called with arg, and whether it reported failure
LibCall(fn, arg, failed) == [fn |-> fn, arg |-> arg, failed |-> failed]

\* a method that returned value
Returned(op, input, tr, value) ==
    [op |-> op, input |-> input, trace |-> tr, outcome |-> "return",
     class |-> "none", fn |-> "none", conn |-> "none", result |-> value]

\* a method left through _E(..., create_error(class, fn, conn))
Failed(op, input, tr, class, fn, conn) ==
    [op |-> op, input |-> input, trace |-> tr, outcome |-> "raise",
     class |-> class, fn |-> fn, conn |-> conn, result |-> Nil]

\* a method left through rb_raise(class, ...) or an exception of a Ruby call
Raised(op, input, tr, class) == Failed(op, input, tr, class, "none", "none")

NoCall == Returned("none", Nil, <<>>, Nil)

\* the Ruby program is not inside one of these methods and can call one
CanCall == call.op = "none"

\* the caller has taken the method's result and runs on
CallDone ==
    /\ call.op # "none"
    /\ call' = NoCall
    /\ UNCHANGED <<connPtr, closeDone, query, evars, hvars>>

\* connect_close(p): virConnectClose, and SystemCallError if it fails
connect_close(op, failed) ==
    LET tr == <<LibCall("virConnectClose", <<>>, failed)>>
    IN  IF failed
        THEN Failed(op, Nil, tr, "SystemCallError", "virConnectClose", Handle)
        ELSE Returned(op, Nil, tr, Nil)

\* a faulty variant of libvirt_conn_close: DATA_PTR(s) is left as it was
ConnCloseKeepsPtr ==
    \E failed \in BOOLEAN :
        /\ CanCall
        /\ call' = IF connPtr # "NULL" THEN connect_close("close", failed)
                                       ELSE Returned("close", Nil, <<>>, Nil)
        /\ closeDone' = (closeDone \/ call'.outcome = "return")
        /\ UNCHANGED <<connPtr, query, evars, hvars>>

\* conn.close
libvirt_conn_close ==
    \E failed \in BOOLEAN :
        /\ CanCall
        /\ call' = IF connPtr # "NULL" THEN connect_close("close", failed)
                                       ELSE Returned("close", Nil, <<>>, Nil)
        /\ connPtr' = IF connPtr # "NULL" /\ call'.outcome = "return"
                      THEN "NULL" ELSE connPtr
        /\ closeDone' = (closeDone \/ call'.outcome = "return")
        /\ UNCHANGED <<query, evars, hvars>>

\* conn.closed?
libvirt_conn_closed_p ==
    /\ CanCall
    /\ call' = Returned("closed?", Nil, <<>>, IF connPtr = "NULL" THEN Qtrue ELSE Qfalse)
    /\ UNCHANGED <<connPtr, closeDone, query, evars, hvars>>

\* the uuid arguments of lookup_domain_by_uuid
Uuids == {"uuid-known", "uuid-unknown"}

\* conn.lookup_domain_by_uuid(uuid); connect_get raises on a closed connection
libvirt_conn_lookup_domain_by_uuid ==
    \E uuid \in Uuids, failed \in BOOLEAN :
        LET op == "lookup_domain_by_uuid"
            tr == <<LibCall("virDomainLookupByUUIDString", uuid, failed)>>
        IN  /\ CanCall
            /\ call' = IF connPtr = "NULL"
                       THEN Raised(op, uuid, <<>>, "ArgumentError")
                       ELSE IF failed
                       THEN Failed(op, uuid, tr, "RetrieveError",
                                   "virDomainLookupByUUID", Handle)
                       ELSE Returned(op, uuid, tr, domain_new(uuid, connect_new(Handle)))
            /\ UNCHANGED <<connPtr, closeDone, query, evars, hvars>>

\* dom.autostart
libvirt_dom_autostart ==
    \E failed \in BOOLEAN, autostart \in {0, 1} :
        LET tr == <<LibCall("virDomainGetAutostart", <<>>, failed)>>
        IN  /\ CanCall
            /\ connPtr # "NULL"
            /\ call' = IF failed
                       THEN Failed("autostart", Nil, tr, "RetrieveError",
                                   "virDomainAutostart", Handle)
                       ELSE Returned("autostart", Nil, tr,
                                     IF autostart # 0 THEN Qtrue ELSE Qfalse)
            /\ UNCHANGED <<connPtr, closeDone, query, evars, hvars>>

\* what virDomainGetID answers, read as the int it is assigned to (out = id):
\* the ids of running domains, and (unsigned int)-1 for a domain that is not
\* running
DomainIds == {-1, 0, 5}

\* _E(out == -1, ...): the id that makes dom.id raise
IdIsError(out) == out = -1

\* dom.id
libvirt_dom_id ==
    \E id \in DomainIds :
        LET out == id
            tr == <<LibCall("virDomainGetID", <<>>, id = -1)>>
        IN  /\ CanCall
            /\ connPtr # "NULL"
            /\ call' = IF IdIsError(out)
                       THEN Failed("id", id, tr, "RetrieveError", "virDomainGetID", Handle)
                       ELSE Returned("id", id, tr, INT2NUM(out))
            /\ UNCHANGED <<connPtr, closeDone, query, evars, hvars>>

\* the arguments of dom.memory=: a Fixnum, arrays of 2 (memory, flags) and of 3,
\* and a String
MemoryArgs ==
    { [type |-> "T_FIXNUM", len |-> 0, memory |-> 1024, flags |-> 0],
      [type |-> "T_ARRAY", len |-> 2, memory |-> 1024, flags |-> 0],
      [type |-> "T_ARRAY", len |-> 2, memory |-> 1024, flags |-> 1],
      [type |-> "T_ARRAY", len |-> 3, memory |-> 1024, flags |-> 0],
      [type |-> "T_STRING", len |-> 0, memory |-> 0, flags |-> 0] }

\* dom.memory = in; have: the build has virDomainSetMemoryFlags.  The value
\* returned is ULONG2NUM of the VALUE memory, not of the number it holds
libvirt_dom_memory_set ==
    \E in \in MemoryArgs, have \in BOOLEAN, failed \in BOOLEAN :
        LET op == "memory="
            fn == IF have THEN "virDomainSetMemoryFlags" ELSE "virDomainSetMemory"
            tr == <<LibCall(fn, <<in.memory, in.flags>>, failed)>>
        IN  /\ CanCall
            /\ connPtr # "NULL"
            /\ call' =
                 IF in.type = "T_ARRAY" /\ in.len # 2
                 THEN Raised(op, in, <<>>, "ArgumentError")
                 ELSE IF in.type \notin {"T_FIXNUM", "T_ARRAY"}
                 THEN Raised(op, in, <<>>, "TypeError")
                 ELSE IF ~have /\ in.flags # 0
                 THEN Raised(op, in, <<>>, "NoSupportError")
                 ELSE IF failed
                 THEN Failed(op, in, tr, "DefinitionError", "virDomainSetMemory", Handle)
                 ELSE Returned(op, in, tr, <<"Integer", 2 * in.memory + 1>>)
            /\ UNCHANGED <<connPtr, closeDone, query, evars, hvars>>

\* what virConnectGetType answers
ConnTypes == {"NULL", "QEMU", "Xen"}

\* dom.qemu_monitor_command(cmd, flags=0); exc: rb_str_new2 of the reply raised
libvirt_dom_qemu_monitor_command ==
    \E type \in ConnTypes, failed \in BOOLEAN, exc \in BOOLEAN :
        LET op == "qemu_monitor_command"
            cmd == "info cpus"
            asked == <<LibCall("virConnectGetType", <<>>, type = "NULL")>>
            tr == Append(asked, LibCall("virDomainQemuMonitorCommand", cmd, failed))
        IN  /\ CanCall
            /\ connPtr # "NULL"
            /\ call' =
                 IF type = "NULL"
                 THEN Failed(op, cmd, asked, "Error", "virConnectGetType", Handle)
                 ELSE IF type # "QEMU"
                 THEN Raised(op, cmd, asked, "TypeError")
                 ELSE IF failed
                 THEN Failed(op, cmd, tr, "RetrieveError",
                             "virDomainQemuMonitorCommand", Handle)
                 ELSE IF exc
                 THEN Raised(op, cmd, tr, "RubyException")
                 ELSE Returned(op, cmd, tr, rb_str_new2("reply"))
            /\ UNCHANGED <<connPtr, closeDone, query, evars, hvars>>

(***************************************************************************)
(* domain.c: typed parameters.  dom.scheduler_parameters and               *)
(* dom.scheduler_parameters= hand the callbacks scheduler_nparams,         *)
(* scheduler_get and scheduler_set to get_parameters and set_parameters,   *)
(* which convert between a parameter set and an array of virTypedParameter *)
(* records.  The record layout and the callbacks are in domain.c; the two  *)
(* converters are modelled as the specification describes them.           *)
(***************************************************************************)
\* the most entries a parameter set has
MaxParams == 2

\* char field[VIR_TYPED_PARAM_FIELD_LENGTH]
VIR_TYPED_PARAM_FIELD_LENGTH == 80

\* the last of the type tags VIR_TYPED_PARAM_INT (1) .. VIR_TYPED_PARAM_STRING
VIR_TYPED_PARAM_STRING == 7

\* the kinds, in the order of their type tags
Kinds == <<"Int32", "UInt32", "Int64", "UInt64", "Double", "Boolean", "String">>

\* a faulty variant of KindTag: the tags of Int64 and UInt64 are exchanged
KindTagSwapped(kind) ==
    CASE kind = "Int64" -> 4
      [] kind = "UInt64" -> 3
      [] OTHER -> CHOOSE t \in 1..VIR_TYPED_PARAM_STRING : Kinds[t] = kind

\* VIR_TYPED_PARAM_INT .. VIR_TYPED_PARAM_STRING: the type tag of a kind
KindTag(kind) == CHOOSE t \in 1..VIR_TYPED_PARAM_STRING : Kinds[t] = kind

\* the arm of the union value that a kind uses
ArmOf(kind) ==
    CASE kind = "Int32" -> "i"
      [] kind = "UInt32" -> "ui"
      [] kind = "Int64" -> "l"
      [] kind = "UInt64" -> "ul"
      [] kind = "Double" -> "d"
      [] kind = "Boolean" -> "b"
      [] kind = "String" -> "s"

\* a name of n bytes
NameOfLen(n, ch) == [i \in 1..n |-> ch]

\* parameter names: a short one, one that fills the field, one that is too long
Names ==
    { <<"c", "p", "u">>,
      NameOfLen(VIR_TYPED_PARAM_FIELD_LENGTH, "a"),
      NameOfLen(VIR_TYPED_PARAM_FIELD_LENGTH + 10, "b") }

\* one entry of a parameter set: num holds the value of an integer kind, str
\* that of a Double (its digits) or a String, bool that of a Boolean; null says
\* that a String entry holds no string
TypedValue(name, kind, num, str, bool, null) ==
    [name |-> name, kind |-> kind, num |-> num, str |-> str, bool |-> bool,
     null |-> null]

\* the payloads of each kind
TypedValues ==
    UNION { { TypedValue(n, "Int32", -2147483647, "", FALSE, FALSE),
              TypedValue(n, "Int32", 7, "", FALSE, FALSE),
              TypedValue(n, "UInt32", 2147483647, "", FALSE, FALSE),
              TypedValue(n, "Int64", -9, "", FALSE, FALSE),
              TypedValue(n, "UInt64", 9, "", FALSE, FALSE),
              TypedValue(n, "Double", 0, "1.5", FALSE, FALSE),
              TypedValue(n, "Boolean", 0, "", TRUE, FALSE),
              TypedValue(n, "Boolean", 0, "", FALSE, FALSE),
              TypedValue(n, "String", 0, "x", FALSE, FALSE),
              TypedValue(n, "String", 0, "", FALSE, TRUE) } : n \in Names }

\* the parameter sets: sequences of entries without a repeated name
ParameterSets ==
    { P \in UNION { [1..n -> TypedValues] : n \in 0..MaxParams } :
         \A i, j \in 1..Len(P) : P[i].name = P[j].name => i = j }

\* the name written to the field: its bytes, then NUL up to the capacity
PadField(name) ==
    [i \in 1..VIR_TYPED_PARAM_FIELD_LENGTH |->
        IF i <= Len(name) THEN name[i] ELSE "NUL"]

\* the name read from the field: the bytes before the first NUL
FieldName(field) ==
    LET n == IF \E i \in 1..Len(field) : field[i] = "NUL"
             THEN (CHOOSE i \in 1..Len(field) :
                      /\ field[i] = "NUL"
                      /\ \A j \in 1..(i - 1) : field[j] # "NUL") - 1
             ELSE Len(field)
    IN  SubSeq(field, 1, n)

\* a faulty variant of NameFits: every name is taken
NameFitsAlways(name) == TRUE

\* the name fits the field
NameFits(name) == Len(name) <= VIR_TYPED_PARAM_FIELD_LENGTH

\* the record written for an entry: field, type tag, and the arm of its kind; a
\* Boolean is written as the byte 0 or 1, a String as a pointer (num = 1) to str
EncodeOne(tv) ==
    [field |-> PadField(tv.name),
     type |-> KindTag(tv.kind),
     value |-> [arm |-> ArmOf(tv.kind),
                num |-> CASE tv.kind = "Boolean" -> (IF tv.bool THEN 1 ELSE 0)
                          [] tv.kind = "String" -> 1
                          [] OTHER -> tv.num,
                str |-> tv.str]]

\* the parameter set can be written: every name fits and every String entry
\* holds a string
Encodable(P) == \A i \in 1..Len(P) : NameFits(P[i].name) /\ ~P[i].null

\* encode(P): the names are validated, then the payloads, and only then is the
\* array of records written; on an error there is no array
encode(P) ==
    IF \E i \in 1..Len(P) : ~NameFits(P[i].name)
    THEN [error |-> "NameTooLongError", raw |-> <<>>]
    ELSE IF \E i \in 1..Len(P) : P[i].null
    THEN [error |-> "InvalidValueError", raw |-> <<>>]
    ELSE [error |-> "none", raw |-> [i \in 1..Len(P) |-> EncodeOne(P[i])]]

\* a faulty variant of KnownKind: every tag is taken
KnownKindAlways(type) == TRUE

\* the type tag is one of the seven
KnownKind(type) == type \in 1..VIR_TYPED_PARAM_STRING

\* the kind a type tag stands for
TagKind(type) == IF type \in 1..VIR_TYPED_PARAM_STRING THEN Kinds[type] ELSE "Int32"

\* the entry read from a record: the arm of its kind; where the record holds
\* another arm the bytes read are not what was written
DecodeOne(rec) ==
    LET kind == TagKind(rec.type)
        held == rec.value.arm = ArmOf(kind)
        num == IF held THEN rec.value.num ELSE 0
        str == IF held THEN rec.value.str ELSE ""
    IN  TypedValue(FieldName(rec.field), kind,
                   IF kind \in {"Int32", "UInt32", "Int64", "UInt64"} THEN num ELSE 0,
                   IF kind \in {"Double", "String"} THEN str ELSE "",
                   kind = "Boolean" /\ num # 0,
                   kind = "String" /\ num = 0)

\* decode(raw, count): the parameter set, or DecodeError and no set
decode(raw) ==
    IF \A i \in 1..Len(raw) : KnownKind(raw[i].type)
    THEN [error |-> "none", set |-> [i \in 1..Len(raw) |-> DecodeOne(raw[i])]]
    ELSE [error |-> "DecodeError", set |-> <<>>]

\* a record whose type tag libvirt might use one day
UnknownRecord ==
    [field |-> PadField(<<"n", "e", "w">>), type |-> 99,
     value |-> [arm |-> "i", num |-> 1, str |-> ""]]

\* a Boolean record whose byte is neither 0 nor 1
OddBoolean ==
    [field |-> PadField(<<"o", "n">>), type |-> KindTag("Boolean"),
     value |-> [arm |-> "b", num |-> 2, str |-> ""]]

\* the arrays libvirt fills in for a get: the encoding of a parameter set
\* (origin: that set), and arrays holding the two records above
RawArrays ==
    { [known |-> TRUE, origin |-> P, raw |-> encode(P).raw] :
         P \in { Q \in ParameterSets : Encodable(Q) } }
    \cup
    { [known |-> FALSE, origin |-> <<>>, raw |-> r] :
         r \in { <<UnknownRecord>>, <<OddBoolean>>,
                 <<EncodeOne(TypedValue(<<"c", "p", "u">>, "Int32", 7, "", FALSE, FALSE)),
                   UnknownRecord>> } }

\* scheduler_nparams: virDomainGetSchedulerType, its answer is the count
scheduler_nparams(failed) == LibCall("virDomainGetSchedulerType", <<>>, failed)

\* scheduler_get: virDomainGetSchedulerParametersFlags
scheduler_get(failed) == LibCall("virDomainGetSchedulerParametersFlags", <<>>, failed)

\* scheduler_set: virDomainSetSchedulerParametersFlags with the array
scheduler_set(params, failed) ==
    LibCall("virDomainSetSchedulerParametersFlags", params, failed)

\* dom.scheduler_parameters(flags=0): get_parameters with the scheduler callbacks
libvirt_dom_get_scheduler_parameters ==
    \E a \in RawArrays, probeFailed \in BOOLEAN, failed \in BOOLEAN :
        LET op == "scheduler_parameters"
            probe == <<scheduler_nparams(probeFailed)>>
            tr == Append(probe, scheduler_get(failed))
            d == decode(a.raw)
        IN  /\ CanCall
            /\ connPtr # "NULL"
            /\ call' =
                 IF probeFailed
                 THEN Failed(op, a, probe, "RetrieveError",
                             "virDomainGetSchedulerType", Handle)
                 ELSE IF Len(a.raw) = 0
                 THEN Returned(op, a, probe, <<>>)
                 ELSE IF failed
                 THEN Failed(op, a, tr, "RetrieveError",
                             "virDomainGetSchedulerParameters", Handle)
                 ELSE IF d.error # "none"
                 THEN Raised(op, a, tr, d.error)
                 ELSE Returned(op, a, tr, d.set)
            /\ UNCHANGED <<connPtr, closeDone, query, evars, hvars>>

\* dom.scheduler_parameters = P: set_parameters with the scheduler callbacks
libvirt_dom_set_scheduler_parameters ==
    \E P \in ParameterSets, failed \in BOOLEAN :
        LET op == "scheduler_parameters="
            e == encode(P)
            tr == <<scheduler_set(e.raw, failed)>>
        IN  /\ CanCall
            /\ connPtr # "NULL"
            /\ call' =
                 IF e.error # "none"
                 THEN Raised(op, P, <<>>, e.error)
                 ELSE IF failed
                 THEN Failed(op, P, tr, "RetrieveError",
                             "virDomainSetSchedulerParameters", Handle)
                 ELSE Returned(op, P, tr, P)
            /\ UNCHANGED <<connPtr, closeDone, query, evars, hvars>>

(***************************************************************************)
(* domain.c: snapshot.parent.                                              *)
(***************************************************************************)
\* domain_snapshot_new(snap, domain): a new Libvirt::Domain::Snapshot
domain_snapshot_new(snap, domain) == <<"Snapshot", snap, domain>>

\* what virDomainSnapshotGetParent answers: a snapshot, or NULL
ParentPtrs == {"NULL", "virDomainSnapshotPtr"}

\* the code of the connection's last error, as virConnGetLastError gives it
ErrCodes == {"VIR_ERR_NO_DOMAIN_SNAPSHOT", "VIR_ERR_INTERNAL_ERROR"}

\* the outcome of snapshot.parent once snap is known; root says whether a NULL
\* snap with this error code is taken for "the snapshot is a root"
SnapshotParentOutcome(flags, snap, code, root) ==
    LET op == "parent"
        in == [flags |-> flags, code |-> code]
        get == LibCall("virDomainSnapshotGetParent", flags, snap = "NULL")
        err == LibCall("virConnGetLastError", <<>>, FALSE)
    IN  IF snap = "NULL"
        THEN IF root
             THEN Returned(op, in, <<get, err>>, Nil)
             ELSE Failed(op, in, <<get, err>>, "RetrieveError",
                         "virDomainSnapshotGetParent", Handle)
        ELSE Returned(op, in, <<get>>, domain_snapshot_new(snap, <<"Snapshot", "self">>))

\* a faulty variant of libvirt_dom_snapshot_parent: the last error is not
\* looked at and every NULL raises
SnapshotParentAlwaysRaises ==
    \E flags \in 0..MaxFlags, snap \in ParentPtrs, code \in ErrCodes :
        /\ CanCall
        /\ connPtr # "NULL"
        /\ call' = SnapshotParentOutcome(flags, snap, code, FALSE)
        /\ UNCHANGED <<connPtr, closeDone, query, evars, hvars>>

\* snapshot.parent(flags=0)
libvirt_dom_snapshot_parent ==
    \E flags \in 0..MaxFlags, snap \in ParentPtrs, code \in ErrCodes :
        /\ CanCall
        /\ connPtr # "NULL"
        /\ call' = SnapshotParentOutcome(flags, snap, code,
                                         code = "VIR_ERR_NO_DOMAIN_SNAPSHOT")
        /\ UNCHANGED <<connPtr, closeDone, query, evars, hvars>>

(***************************************************************************)
(* domain.c: dom.get_vcpus.                                                *)
(***************************************************************************)
\* the most virtual CPUs a domain has, and the most CPUs a host can have
MaxVcpus == 2

MaxHostCpus == 2

\* dominfo.state
DomStates == {"VIR_DOMAIN_RUNNING", "VIR_DOMAIN_SHUTOFF"}

\* the affinities libvirt reports: every host CPU, or one host CPU per vcpu
PinMaps == {"all", "own"}

\* the inputs of one invocation: what libvirt answers to each call (r is the
\* return value of virDomainGetVcpus: the number of entries it filled in, or
\* -1), whether the build has virDomainGetVcpuPinInfo, and g, what memory that
\* nothing was written to holds
VcpuEnvs ==
    { e \in [nodeFailed : BOOLEAN, infoFailed : BOOLEAN, nrVirtCpu : 0..MaxVcpus,
             maxcpus : 1..MaxHostCpus, state : DomStates, r : -1..MaxVcpus,
             pinFailed : BOOLEAN, have : BOOLEAN, pin : PinMaps, g : GarbageInts] :
        e.r <= e.nrVirtCpu }

\* cpuinfo = alloca(sizeof(virVcpuInfo) * dominfo.nrVirtCpu)
CpuinfoPtr == "alloca"

\* VIR_CPU_USABLE(cpumap, maplen, i, j)
VIR_CPU_USABLE(e, i, j) == e.pin = "all" \/ j = i % e.maxcpus

\* cpuinfo[i] as the loop reads it: what virDomainGetVcpus wrote, or what the
\* memory held where it wrote nothing
CpuinfoAt(e, i) ==
    IF i < e.r THEN [state |-> 1, cpuTime |-> 100 + i, cpu |-> i % e.maxcpus]
               ELSE [state |-> e.g, cpuTime |-> e.g, cpu |-> e.g]

\* a faulty variant of VcpuEntry: the cpumap has one entry per virtual CPU
VcpuEntryShortMap(e, i) ==
    [number |-> INT2NUM(i),
     state |-> IF CpuinfoPtr # "NULL" THEN INT2NUM(CpuinfoAt(e, i).state) ELSE Nil,
     cpu_time |-> IF CpuinfoPtr # "NULL" THEN LL2NUM(CpuinfoAt(e, i).cpuTime) ELSE Nil,
     cpu |-> IF CpuinfoPtr # "NULL" THEN INT2NUM(CpuinfoAt(e, i).cpu) ELSE Nil,
     cpumap |-> [j \in 1..e.nrVirtCpu |->
                    IF VIR_CPU_USABLE(e, i, j - 1) THEN Qtrue ELSE Qfalse]]

\* the VCPUInfo object the loop makes for virtual CPU i
VcpuEntry(e, i) ==
    [number |-> INT2NUM(i),
     state |-> IF CpuinfoPtr # "NULL" THEN INT2NUM(CpuinfoAt(e, i).state) ELSE Nil,
     cpu_time |-> IF CpuinfoPtr # "NULL" THEN LL2NUM(CpuinfoAt(e, i).cpuTime) ELSE Nil,
     cpu |-> IF CpuinfoPtr # "NULL" THEN INT2NUM(CpuinfoAt(e, i).cpu) ELSE Nil,
     cpumap |-> [j \in 1..e.maxcpus |->
                    IF VIR_CPU_USABLE(e, i, j - 1) THEN Qtrue ELSE Qfalse]]

\* a faulty variant of VcpusFallback: the pin info is asked for whatever the
\* state of the domain
VcpusFallbackAnyState(e) == e.have

\* after virDomainGetVcpus failed: the pin info is asked for instead
VcpusFallback(e) == e.have /\ e.state = "VIR_DOMAIN_SHUTOFF"

\* dom.get_vcpus
libvirt_dom_get_vcpus ==
    \E e \in VcpuEnvs :
        LET op == "get_vcpus"
            node == LibCall("virNodeGetInfo", <<>>, e.nodeFailed)
            info == LibCall("virDomainGetInfo", <<>>, e.infoFailed)
            vcpus == LibCall("virDomainGetVcpus", e.nrVirtCpu, e.r < 0)
            pin == LibCall("virDomainGetVcpuPinInfo", e.nrVirtCpu, e.pinFailed)
            result == [k \in 1..e.nrVirtCpu |-> VcpuEntry(e, k - 1)]
        IN  /\ CanCall
            /\ connPtr # "NULL"
            /\ call' =
                 IF e.nodeFailed
                 THEN Failed(op, e, <<node>>, "RetrieveError", "virNodeGetInfo", Handle)
                 ELSE IF e.infoFailed
                 THEN Failed(op, e, <<node, info>>, "RetrieveError",
                             "virDomainGetInfo", Handle)
                 ELSE IF e.r >= 0
                 THEN Returned(op, e, <<node, info, vcpus>>, result)
                 ELSE IF ~VcpusFallback(e)
                 THEN Failed(op, e, <<node, info, vcpus>>, "RetrieveError",
                             "virDomainGetVcpus", Handle)
                 ELSE IF e.pinFailed
                 THEN Failed(op, e, <<node, info, vcpus, pin>>, "RetrieveError",
                             "virDomainGetVcpuPinInfo", Handle)
                 ELSE Returned(op, e, <<node, info, vcpus, pin>>, result)
            /\ UNCHANGED <<connPtr, closeDone, query, evars, hvars>>

NextCall ==
    \/ libvirt_conn_close
    \/ libvirt_conn_closed_p
    \/ libvirt_conn_lookup_domain_by_uuid
    \/ libvirt_dom_autostart
    \/ libvirt_dom_id
    \/ libvirt_dom_memory_set
    \/ libvirt_dom_qemu_monitor_command
    \/ libvirt_dom_get_scheduler_parameters
    \/ libvirt_dom_set_scheduler_parameters
    \/ libvirt_dom_snapshot_parent
    \/ libvirt_dom_get_vcpus
    \/ CallDone

(***************************************************************************)
(* connect.c: the life of the connection handle.  connect_new wraps a      *)
(* handle in a Connect object whose free function is connect_close; every  *)
(* adapter makes such an object for the handle libvirt passes it, which is *)
(* the handle of the connection the callback was registered on.            *)
(***************************************************************************)
\* the most finalizations of adapter-made Connect objects that are followed
MaxCloses == 2

\* the garbage collector finalizes a Connect object that an adapter made, once
\* the delivery is over: connect_close(p) calls virConnectClose on the handle
FinalizeWrapper ==
    /\ wrapped
    /\ disp.phase = "none"
    /\ reply.op = "none"
    /\ CanCall
    /\ wrapperCloses < MaxCloses
    /\ \E failed \in BOOLEAN :
          wrapperCloses' =
             IF connect_close("finalize", failed).outcome = "return"
             THEN wrapperCloses + 1 ELSE wrapperCloses
    /\ wrapped' = FALSE
    /\ UNCHANGED <<cvars, query, evars>>

NextHandle ==
    \/ libvirt_conn_domain_event_register
    \/ CallerResumes
    \/ Deliver
    \/ DeliverEnd
    \/ FinalizeWrapper
    \/ libvirt_conn_close
    \/ libvirt_conn_lookup_domain_by_uuid
    \/ CallDone

(***************************************************************************)
(* Specifications.                                                         *)
(***************************************************************************)
Init ==
    /\ query = NoQuery
    /\ regs = [i \in RegIds |-> NoReg]
    /\ disp = NoDispatch
    /\ reply = NoReply
    /\ deregDone = {}
    /\ call = NoCall
    /\ connPtr = Handle
    /\ closeDone = FALSE
    /\ wrapped = FALSE
    /\ wrapperCloses = 0

\* the two-phase query methods
SpecQuery == Init /\ [][NextQuery]_vars

\* the event callback methods and libvirt's deliveries
SpecEvent == Init /\ [][NextEvent]_vars

\* the single-call and typed-parameter methods, close and closed?
SpecCall == Init /\ [][NextCall]_vars

\* the connection handle under conn.close, deliveries and finalizations
SpecHandle == Init /\ [][NextHandle]_vars

(***************************************************************************)
(* Properties of the two-phase queries (checked under SpecQuery).          *)
(***************************************************************************)
\* a query method has been invoked
Invoked == query.op # "none"

\* the libvirt calls of the invocation, in order
Calls == SelectSeq(query.trace, LAMBDA x : x.ev = "call")

\* a probe is a call that is given no destination buffer
IsProbe(c) == c.buf \in {"none", "NULL"}

\* the calls that are given a destination buffer
Fetches == SelectSeq(Calls, LAMBDA c : ~IsProbe(c))

\* the buffers of one kind the invocation allocated
Allocs(how) == SelectSeq(query.trace, LAMBDA x : x.ev = "alloc" /\ x.how = how)

\* the releases of one thing the invocation made
Frees(what, i) ==
    SelectSeq(query.trace, LAMBDA x : x.ev = "free" /\ x.what = what /\ x.index = i)

\* the Ruby value a method makes of entry i as libvirt wrote it
EntryOf(op, i) ==
    CASE op = "list_domains" -> <<"Fixnum", i>>
      [] op \in {"node_cpu_stats", "node_memory_stats"} ->
            <<<<"String", i>>, <<"Integer", i>>>>
      [] OTHER -> <<"String", i>>

\* C1: in every two-phase query, when the probe reports a count of 0 the
\* operation returns an empty result and the fetch call is never issued.
C1_ZeroCountNoFetch ==
    (Invoked /\ Calls[1].ret = 0) =>
        /\ query.outcome = "return"
        /\ query.result = <<>>
        /\ Fetches = <<>>

\* C2: when the fetch returns a count r no larger than the probe's, the result
\* has exactly r elements, each made of an entry the fetch filled.
C2_ResultIsWhatWasFetched ==
    (Invoked /\ query.outcome = "return" /\ Len(Fetches) > 0) =>
        LET r == Fetches[1].ret
        IN  /\ r <= Calls[1].ret
            /\ Len(query.result) = r
            /\ query.result = [i \in 1..r |-> EntryOf(query.op, i)]

\* C3: when the probe fails the method raises RetrieveError naming the probe at
\* once: the probe is all it did, no buffer was allocated, no fetch was issued.
C3_ProbeFailureRaises ==
    (Invoked /\ Calls[1].ret < 0) =>
        /\ query.outcome = "raise"
        /\ query.class = "RetrieveError"
        /\ query.fn = Calls[1].fn
        /\ query.trace = <<Calls[1]>>

\* C3's case: an invocation whose probe failed
C3_ProbeFailed == Invoked /\ IsProbe(Calls[1]) /\ Calls[1].ret < 0

\* C4: on every way out (return, fetch failure, exception while converting) each
\* buffer allocated after the probe is released exactly once: there is at most
\* one buffer; a heap buffer is xfree'd once, after its allocation, and nothing
\* is xfree'd that was not allocated; a stack buffer goes with the frame; and of
\* the strings libvirt stored into the children array each is freed once and
\* no entry it did not fill is freed.
C4_BuffersReleasedOnce ==
    Invoked =>
        /\ Len(Allocs("ALLOC_N")) + Len(Allocs("alloca")) <= 1
        /\ Len(Frees("params", 0)) = Len(Allocs("ALLOC_N"))
        /\ \A k \in 1..Len(query.trace) :
              query.trace[k] = Free("params", 0) =>
                  \E j \in 1..(k - 1) :
                     /\ query.trace[j].ev = "alloc"
                     /\ query.trace[j].how = "ALLOC_N"
        /\ \A i \in 1..(MaxCount + 1) :
              Len(Frees("entry", i)) =
                  IF /\ query.op = "list_children_names"
                     /\ Len(Fetches) > 0
                     /\ i <= Fetches[1].ret
                  THEN 1 ELSE 0

\* C4's case: a heap buffer was allocated and the method was left by an
\* exception raised while an entry was converted
C4_LeftByException ==
    /\ Invoked
    /\ Len(Allocs("ALLOC_N")) = 1
    /\ query.outcome = "raise"
    /\ query.class = "RubyException"

\* C5: within one invocation the probe is the first call, every fetch comes
\* after it, and the size passed to the fetch (and of the buffer allocated for
\* it) is exactly the count that invocation's probe returned.
C5_FetchSizedByProbe ==
    Invoked =>
        /\ query.trace[1] = Calls[1]
        /\ IsProbe(Calls[1])
        /\ Len(Calls) <= 2
        /\ \A k \in 2..Len(Calls) :
              /\ ~IsProbe(Calls[k])
              /\ Calls[k].size = Calls[1].ret
        /\ \A k \in 1..Len(query.trace) :
              query.trace[k].ev = "alloc" => query.trace[k].size = Calls[1].ret

\* C5's case: a fetch was issued for the largest count
C5_Fetched == Invoked /\ Len(Fetches) = 1 /\ Calls[1].ret = MaxCount

(***************************************************************************)
(* Properties of the event callbacks (checked under SpecEvent).            *)
(***************************************************************************)
DeregisterOps == {"domain_event_deregister_any", "domain_event_deregister"}

\* this step is a deregister method returning or raising
DeregisterReplies == reply.op = "none" /\ reply'.op \in DeregisterOps

\* C6: once domain_event_deregister_any(id) has succeeded, another
\* domain_event_deregister_any(id) raises an error and leaves every
\* registration as it was.
C6_SecondDeregisterFails ==
    [][ \A id \in RegIds :
           ( /\ id \in deregDone
             /\ reply.op = "none"
             /\ reply'.op = "domain_event_deregister_any"
             /\ reply'.id = id ) =>
               /\ reply'.out = "Error"
               /\ regs' = regs
               /\ deregDone' = deregDone ]_vars

\* C6's case: a second deregister_any of an id has just raised while another
\* registration is on the list
C6_SecondFailed ==
    /\ reply.op = "domain_event_deregister_any"
    /\ reply.out = "Error"
    /\ reply.id \in deregDone
    /\ \E j \in RegIds : regs[j].state = "Registered"

C8_NoDispatchAfterDeregister ==
    [][ /\ disp'.phase # "none" => ~disp'.afterDereg
        /\ DeregisterReplies => disp' = disp
        /\ (disp.phase = "handler" /\ disp' # disp) =>
              /\ disp' = NoDispatch
              /\ UNCHANGED <<regs, reply, deregDone>> ]_vars

\* C8's case: the handler of a registration is still running after that
\* registration's deregister method has returned nil
C8_DeregisteredWhileRunning ==
    /\ disp.phase = "handler"
    /\ reply.op \in DeregisterOps
    /\ reply.out = "nil"
    /\ reply.id = disp.id
    /\ regs[disp.id].state = "Deregistered"

\* the receiver and method of the call that invokes a registered callback
HandlerOf(cb) ==
    IF cb[1] = "Symbol" THEN [recv |-> <<"Class", "Symbol">>, mid |-> cb[2]]
                        ELSE [recv |-> cb, mid |-> "call"]

\* the hash documented for a graphics address
DocumentedAddress(a) ==
    <<"Hash", <<<<<<"String", "family">>, <<"Fixnum", a.family>>>>,
                <<<<"String", "node">>, <<"String", a.node>>>>,
                <<<<"String", "service">>, <<"String", a.service>>>>>>>>

\* the arguments documented for an event kind, before the opaque
DocumentedArgs(eventID, ev) ==
    LET c == <<"Connect", ev.conn>>
        d == <<"Domain", ev.dom, c>>
    IN  CASE eventID = "LIFECYCLE" ->
                <<c, d, <<"Fixnum", ev.event>>, <<"Fixnum", ev.detail>>>>
          [] eventID = "REBOOT" -> <<c, d>>
          [] eventID = "RTC_CHANGE" -> <<c, d, <<"Integer", ev.utc_offset>>>>
          [] eventID = "WATCHDOG" -> <<c, d, <<"Fixnum", ev.action>>>>
          [] eventID = "IO_ERROR" ->
                <<c, d, <<"String", ev.src_path>>, <<"String", ev.dev_alias>>,
                  <<"Fixnum", ev.action>>>>
          [] eventID = "IO_ERROR_REASON" ->
                <<c, d, <<"String", ev.src_path>>, <<"String", ev.dev_alias>>,
                  <<"Fixnum", ev.action>>, <<"String", ev.reason>>>>
          [] eventID = "GRAPHICS" ->
                <<c, d, <<"Fixnum", ev.phase>>, DocumentedAddress(ev.local),
                  DocumentedAddress(ev.remote), <<"String", ev.authScheme>>,
                  <<"Array", [i \in 1..Len(ev.subject) |->
                                <<"Array", <<<<"String", ev.subject[i].type>>,
                                             <<"String", ev.subject[i].name>>>>>>]>>>>

\* the number of arguments documented for an event kind
DocumentedArity(eventID) ==
    CASE eventID = "LIFECYCLE" -> 5
      [] eventID = "REBOOT" -> 3
      [] eventID = "RTC_CHANGE" -> 4
      [] eventID = "WATCHDOG" -> 4
      [] eventID = "IO_ERROR" -> 6
      [] eventID = "IO_ERROR_REASON" -> 7
      [] eventID = "GRAPHICS" -> 8

\* C9: every delivery invokes the registered handler, once, with the arguments
\* documented for the event kind followed by the opaque value given at
\* registration.
C9_DocumentedArguments ==
    disp.phase # "none" =>
        /\ disp.phase = "handler"
        /\ disp.recv = HandlerOf(disp.registered[1]).recv
        /\ disp.mid = HandlerOf(disp.registered[1]).mid
        /\ Len(disp.args) = DocumentedArity(disp.eventID)
        /\ disp.args = DocumentedArgs(disp.eventID, disp.event) \o <<disp.registered[2]>>

\* what the adapter finds is no [Symbol or Proc, opaque] array
Malformed(p) ==
    \/ p.type # "T_ARRAY"
    \/ p.len # 2
    \/ p.elems[1][1] \notin {"Symbol", "Proc"}

Probes == SelectSeq(Calls, IsProbe)

\* C17: every invocation ends, in a return or in a raise, having issued one
\* probe and at most one fetch; a call that failed is the last call of the
\* invocation (nothing is retried) and the invocation raises.
C17_OneProbeOneFetchNoRetry ==
    Invoked =>
        /\ query.outcome \in {"return", "raise"}
        /\ Len(Probes) = 1
        /\ Len(Fetches) <= 1
        /\ \A k \in 1..Len(Calls) :
              Calls[k].ret < 0 => (k = Len(Calls) /\ query.outcome = "raise")

\* C17's case: the fetch of an invocation failed
C17_FetchFailed == Invoked /\ Len(Fetches) = 1 /\ Fetches[1].ret < 0

(***************************************************************************)
(* Properties of the typed parameters, the single-call methods and the     *)
(* connection (checked under SpecCall).                                    *)
(***************************************************************************)
\* no libvirt call of the invocation reported failure
NoCallFailed == \A k \in 1..Len(call.trace) : ~call.trace[k].failed

\* C12: when libvirt hands back the encoding of a parameter set P whose names
\* fit the field and whose String entries hold strings, decoding it gives P:
\* the same names, kinds and values in the same order.
C12_RoundTrip ==
    (call.op = "scheduler_parameters" /\ call.input.known /\ NoCallFailed) =>
        /\ call.outcome = "return"
        /\ call.result = call.input.origin

\* C12's case: the encoding of a set of MaxParams entries was decoded
C12_Decoded ==
    /\ call.op = "scheduler_parameters"
    /\ call.input.known
    /\ Len(call.input.origin) = MaxParams
    /\ call.outcome = "return"

\* C13: decoding an array that holds a record whose type tag is none of the
\* seven raises DecodeError and gives no parameter set, whatever precedes the
\* record.
C13_UnknownKindRejected ==
    ( /\ call.op = "scheduler_parameters"
      /\ NoCallFailed
      /\ \E i \in 1..Len(call.input.raw) : call.input.raw[i].type \notin DOMAIN Kinds ) =>
        /\ call.outcome = "raise"
        /\ call.class = "DecodeError"
        /\ call.result = Nil

\* C13's case: the unknown record came after a valid one
C13_RejectedAfterValid ==
    /\ call.op = "scheduler_parameters"
    /\ call.class = "DecodeError"
    /\ Len(call.input.raw) > 1
    /\ call.input.raw[1].type \in DOMAIN Kinds

LibvirtErrors == {"RetrieveError", "DefinitionError", "Error"}

LocalErrors == {"TypeError", "ArgumentError", "NoSupportError"}

\* C15: a raise after a libvirt call reported failure is of a libvirt error
\* class; any other raise is of a local class and comes before any libvirt
\* call of the method.
C15_ErrorClassByCause ==
    call.outcome = "raise" =>
        IF NoCallFailed
        THEN call.class \in LocalErrors /\ call.trace = <<>>
        ELSE call.class \in LibvirtErrors

\* C16: an error made by create_error names the libvirt entry point that was
\* called last and failed, and the connection of the object.
C16_ErrorNamesFailedCall ==
    (call.outcome = "raise" /\ call.fn # "none") =>
        LET failedCalls == SelectSeq(call.trace, LAMBDA c : c.failed)
        IN  /\ failedCalls # <<>>
            /\ call.fn = failedCalls[Len(failedCalls)].fn
            /\ call.conn = Handle

\* C19: dom.id returns the id as an integer, -1 for a domain that is not
\* running, and does not raise.
C19_IdReturned ==
    call.op = "id" =>
        /\ call.outcome = "return"
        /\ call.result = <<"Fixnum", call.input>>

\* C20: closed? answers true exactly when a close of the object has returned;
\* close returns nil, on a closed connection without calling libvirt, and it
\* is left by an exception only when virConnectClose failed on an open one.
C20_ClosedIffCloseReturned ==
    /\ call.op = "closed?" => call.result = (IF closeDone THEN Qtrue ELSE Qfalse)
    /\ (connPtr = "NULL") = closeDone
    /\ (call.op = "close" /\ call.outcome = "return") => (call.result = Nil /\ closeDone)
    /\ (call.op = "close" /\ call.outcome = "raise") =>
          (~NoCallFailed /\ connPtr = Handle)

\* C20's case: closed? answered true after a close
C20_ClosedAfterClose == call.op = "closed?" /\ call.result = Qtrue /\ closeDone

(***************************************************************************)
(* Properties of domain_event_register_any (checked under SpecEvent).      *)
(***************************************************************************)
\* the seven event kinds of the switch
SevenEventIDs ==
    {"LIFECYCLE", "REBOOT", "RTC_CHANGE", "WATCHDOG", "IO_ERROR",
     "IO_ERROR_REASON", "GRAPHICS"}

C27_SameSelector ==
    (Invoked /\ Len(Probes) > 0 /\ Len(Fetches) > 0) =>
        /\ Probes[1].cap = Fetches[1].cap
        /\ Probes[1].flags = Fetches[1].flags
        /\ Fetches[1].flags = query.flags

(***************************************************************************)
(* The legacy registration next to register_any, and the life of the       *)
(* passthrough array (checked under SpecEvent).                            *)
(***************************************************************************)
\* registration i was made with domain_event_register
IsLegacy(i) == regs[i].state = "Registered" /\ regs[i].adapter = "domain_event_callback"

\* registration i was made with domain_event_register_any for lifecycle events
IsAnyLifecycle(i) ==
    /\ regs[i].state = "Registered"
    /\ regs[i].eventID = "LIFECYCLE"
    /\ regs[i].adapter = "domain_event_lifecycle_callback"

\* C21: a registration method leaves the registrations that exist as they are,
\* so the legacy registration and one made with register_any for lifecycle
\* events stand side by side; domain_event_deregister changes the legacy
\* registration only, and domain_event_deregister_any(id) the registration
\* with that id only, which is never the legacy one.
C21_LegacyAndAnyCoexist ==
    [][ reply.op = "none" =>
          /\ reply'.op \in {"domain_event_register", "domain_event_register_any"} =>
                \A j \in RegIds : regs[j].state = "Registered" => regs'[j] = regs[j]
          /\ reply'.op = "domain_event_deregister" =>
                /\ \A j \in RegIds : ~IsLegacy(j) => regs'[j] = regs[j]
                /\ reply'.out = "nil" =>
                      IsLegacy(reply'.id) /\ regs'[reply'.id] = Deregistered
          /\ reply'.op = "domain_event_deregister_any" =>
                /\ \A j \in RegIds \ {reply'.id} : regs'[j] = regs[j]
                /\ reply'.out = "nil" =>
                      ~IsLegacy(reply'.id) /\ regs'[reply'.id] = Deregistered
      ]_vars

\* C21's case: domain_event_deregister has taken the legacy registration off
\* while a register_any lifecycle registration made beside it is still there
C21_LegacyRemovedAnyStays ==
    /\ reply.op = "domain_event_deregister"
    /\ reply.out = "nil"
    /\ regs[reply.id].state = "Deregistered"
    /\ \E j \in RegIds : IsAnyLifecycle(j)

\* C26: what a delivery reads through the opaque pointer is the array stored at
\* registration, with the handler and the opaque value that were registered.
C26_PassthroughStaysAlive ==
    disp.phase # "none" =>
        /\ regs[disp.id].state = "Registered" => disp.registered = regs[disp.id].passthrough
        /\ disp.found = Intact(disp.registered)

(***************************************************************************)
(* Properties of snapshot.parent and dom.get_vcpus (checked under          *)
(* SpecCall).                                                              *)
(***************************************************************************)
\* C22: snapshot.parent returns a snapshot object when
\* virDomainSnapshotGetParent gives one; when it gives none, it returns nil if
\* the connection's last error is "no domain snapshot" and raises RetrieveError
\* for any other error.
C22_ParentNilForRoot ==
    call.op = "parent" =>
        IF ~call.trace[1].failed
        THEN call.outcome = "return" /\ call.result[1] = "Snapshot"
        ELSE IF call.input.code = "VIR_ERR_NO_DOMAIN_SNAPSHOT"
        THEN call.outcome = "return" /\ call.result = Nil
        ELSE call.outcome = "raise" /\ call.class = "RetrieveError"

\* C22's case: no parent was given and nil was returned for a root
C22_RootGaveNil ==
    /\ call.op = "parent"
    /\ call.trace[1].failed
    /\ call.outcome = "return"
    /\ call.result = Nil

\* the calls of one libvirt entry point the invocation made
CallsOf(fn) == SelectSeq(call.trace, LAMBDA c : c.fn = fn)

\* virDomainGetVcpus was called and failed
VcpusFailed ==
    /\ call.op = "get_vcpus"
    /\ CallsOf("virDomainGetVcpus") # <<>>
    /\ CallsOf("virDomainGetVcpus")[1].failed

\* a returned list has nrVirtCpu entries numbered from 0, each with a cpumap of
\* one boolean per possible host CPU
VcpusListed ==
    (call.op = "get_vcpus" /\ call.outcome = "return") =>
        /\ Len(call.result) = call.input.nrVirtCpu
        /\ \A k \in 1..Len(call.result) :
              /\ call.result[k].number = <<"Fixnum", k - 1>>
              /\ Len(call.result[k].cpumap) = call.input.maxcpus
              /\ \A j \in 1..Len(call.result[k].cpumap) :
                    call.result[k].cpumap[j] \in {Qtrue, Qfalse}

\* a failure of virDomainGetVcpus on a domain that is not shut off raises
\* RetrieveError with no call of virDomainGetVcpuPinInfo
VcpusFailureRaises ==
    (VcpusFailed /\ call.input.state # "VIR_DOMAIN_SHUTOFF") =>
        /\ call.outcome = "raise"
        /\ call.class = "RetrieveError"
        /\ CallsOf("virDomainGetVcpuPinInfo") = <<>>

\* the pin info was asked for once, and its failure raised RetrieveError
PinInfoAsked ==
    /\ Len(CallsOf("virDomainGetVcpuPinInfo")) = 1
    /\ CallsOf("virDomainGetVcpuPinInfo")[1].failed =>
          (call.outcome = "raise" /\ call.class = "RetrieveError")
    /\ ~CallsOf("virDomainGetVcpuPinInfo")[1].failed => call.outcome = "return"

\* C23 as stated: a failure of virDomainGetVcpus on a running domain raises
\* RetrieveError without asking for the pin info; on a shut-off domain the pin
\* info is asked for once and its failure raises RetrieveError; a returned list
\* has nrVirtCpu entries numbered from 0 with one boolean per host CPU.
C23_VcpusFallback ==
    /\ VcpusFailureRaises
    /\ (VcpusFailed /\ call.input.state = "VIR_DOMAIN_SHUTOFF") => PinInfoAsked
    /\ VcpusListed

\* C23 amended: the pin info is asked for on a shut-off domain in a build that
\* has virDomainGetVcpuPinInfo; in a build without it every failure of
\* virDomainGetVcpus raises RetrieveError and no pin info is asked for.
C23_VcpusFallbackWhereBuilt ==
    /\ VcpusFailureRaises
    /\ (VcpusFailed /\ call.input.state = "VIR_DOMAIN_SHUTOFF") =>
          IF call.input.have
          THEN PinInfoAsked
          ELSE /\ call.outcome = "raise"
               /\ call.class = "RetrieveError"
               /\ CallsOf("virDomainGetVcpuPinInfo") = <<>>
    /\ VcpusListed

\* C23's case: virDomainGetVcpus failed on a shut-off domain and the list was
\* made from the pin info
C23_ListedFromPinInfo ==
    /\ VcpusFailed
    /\ call.outcome = "return"
    /\ Len(call.result) = MaxVcpus
    /\ Len(call.result[1].cpumap) = MaxHostCpus

\* C24: on the fallback path state, cpu_time and cpu of every entry are nil;
\* when virDomainGetVcpus succeeded they are the values it filled in.
C24_FallbackFieldsNil ==
    (call.op = "get_vcpus" /\ call.outcome = "return") =>
        \A k \in 1..Len(call.result) :
            IF VcpusFailed
            THEN /\ call.result[k].state = Nil
                 /\ call.result[k].cpu_time = Nil
                 /\ call.result[k].cpu = Nil
            ELSE /\ call.result[k].state # Nil
                 /\ call.result[k].cpu_time # Nil
                 /\ call.result[k].cpu # Nil

(***************************************************************************)
(* The connection handle (checked under SpecHandle).                       *)
(***************************************************************************)
\* the times the binding has closed the handle: through conn.close and through
\* finalizers
HandleCloses == wrapperCloses + (IF closeDone THEN 1 ELSE 0)

\* C25: the binding closes the handle at most once, and a method issues a
\* libvirt call on the handle only while the binding has not closed it.
C25_HandleClosedAtMostOnce ==
    /\ HandleCloses <= 1
    /\ call.trace # <<>> => wrapperCloses = 0

====
